---- MODULE Spec2Model ----
(***************************************************************************)
(* EcoCalc: the retrieval-augmented query loop.                            *)
(*                                                                         *)
(*   agent.py                 search_graphiti (the search tool) and main   *)
(*                            (the interactive loop)                       *)
(*   knowledge_graph_new.py   main (the seeding run)                       *)
(*                                                                         *)
(* Text is a sequence of one-character strings, so that substring tests,   *)
(* concatenation and case folding are computed, not assumed.               *)
(***************************************************************************)
EXTENDS Integers, Sequences, FiniteSets, TLC

VARIABLES
    pc,               \* position of the run in agent.py main
    conn,             \* the Graphiti connection: "open" or "closed"
    stdin,            \* lines typed by the user and not yet read by input()
    user_input,       \* agent.py:159
    messages,         \* agent.py:154, the chat history
    message_history,  \* the history handed to run_stream, agent.py:174
    turnNo,           \* number of turns started so far
    turnState,        \* state of the current turn (spec 4.3)
    frags,            \* the fragments stream_text has delivered in this turn
    curr_message,     \* agent.py:176
    shown,            \* what live.update last displayed, agent.py:179
    toolCalls,        \* tool invocations made in this turn
    storeCalls,       \* calls to graphiti.search made by the current invocation
    results,          \* agent.py:98, the raw results of the store
    toolOut,          \* what search_graphiti returned
    raised,           \* the exception that ended the turn, "none" if none
    searchLog,        \* what search_graphiti printed, agent.py:128
    storeErr,         \* the exception graphiti.search raised, "none" if none
    errShown,         \* what the loop printed for a failed turn, agent.py:185
    spc,              \* position of the run in knowledge_graph_new.py main
    sconn,            \* the seeding run's Graphiti connection
    epi,              \* index of the next episode to add
    added,            \* Len(added_episodes), knowledge_graph_new.py:202
    upc,              \* position of the form UI, energy_calculator_ui.py
    uiOpens,          \* Graphiti clients created by the UI, line 123
    uiCloses,         \* Graphiti clients closed by the UI
    turnHandles,      \* the clients the UI's turns were run with, line 225
    uiResults,        \* st.session_state.results
    city1,            \* the select box "city_selector", line 142
    city2,            \* the select box "city_selector_1", line 164
    custom_rate,      \* line 150, in hundredths of a dollar
    appliance,        \* line 172
    time,             \* line 187
    unit,             \* line 196
    query             \* line 209

vars == <<pc, conn, stdin, user_input, messages, message_history, turnNo,
          turnState, frags, curr_message, shown, toolCalls, storeCalls,
          results, toolOut, raised, searchLog, storeErr, errShown,
          spc, sconn, epi, added,
          upc, uiOpens, uiCloses, turnHandles, uiResults, city1, city2,
          custom_rate, appliance, time, unit, query>>

loopVars == <<pc, conn, stdin, user_input, messages, message_history, turnNo,
              turnState, frags, curr_message, shown, toolCalls, storeCalls,
              results, toolOut, raised, searchLog, storeErr, errShown>>

seedVars == <<spc, sconn, epi, added>>

formVars == <<upc, uiOpens, uiCloses, turnHandles, uiResults, city1, city2,
              custom_rate, appliance, time, unit, query>>

----------------------------------------------------------------------------
(* Bounds of the model *)

MaxTurns == 3      \* turns started in one run
MaxFrags == 3      \* fragments streamed in one turn
MaxTools == 1      \* tool invocations in one turn
MaxPending == 1    \* lines waiting in stdin
MaxFactLen == 5    \* characters of a statement (single-record batches)
MaxBatch == 2      \* raw results in one batch
MaxRuns == 4       \* runs of the UI script in one browser session

----------------------------------------------------------------------------
(* Text *)

RECURSIVE Concat(_)
Concat(ss) == IF ss = <<>> THEN <<>> ELSE Head(ss) \o Concat(Tail(ss))

\* Python's `tok in s` on strings
Contains(s, tok) ==
    \E i \in 1..(Len(s) - Len(tok) + 1) : SubSeq(s, i, i + Len(tok) - 1) = tok

IsPrefix(p, s) == Len(p) <= Len(s) /\ SubSeq(s, 1, Len(p)) = p

LowerChar(c) ==
    CASE c = "B" -> "b" [] c = "Y" -> "y" [] c = "E" -> "e"
      [] c = "H" -> "h" [] c = "I" -> "i" [] c = "F" -> "f"
      [] c = "T" -> "t" [] c = "V" -> "v" [] c = "A" -> "a"
      [] c = "C" -> "c" [] c = "L" -> "l" [] c = "M" -> "m"
      [] OTHER -> c

LowerForgotten(s) == s

\* str.lower()
Lower(s) == [i \in 1..Len(s) |-> LowerChar(s[i])]

SeqsUpTo(S, n) == UNION {[1..k -> S] : k \in 0..n}

----------------------------------------------------------------------------
(* The fact store's raw results and the search tool, agent.py:73-129 *)

\* An attribute of a raw result: missing, None, or a value.
Absent == [k |-> "absent", v |-> <<>>]
NoneV == [k |-> "none", v |-> <<>>]
Val(x) == [k |-> "val", v |-> x]

Chars == {"1", "k", "W", "h", "K"}
Token1kWh == <<"1", "k", "W", "h">>
AnalogyPrefix ==
    <<"1", " ", "k", "W", "h", " ", "i", "s", " ", "e", "q", "u", "i", "v",
      "a", "l", "e", "n", "t", " ", "t", "o", " ">>

DigitChar == <<"0", "1", "2", "3", "4", "5", "6", "7", "8", "9">>
\* str() of a timestamp; timestamps are the naturals below 10
Str(t) == <<DigitChar[t + 1]>>

Times == {1, 2}
Uuid1 == <<"u", "1">>
Uuid2 == <<"u", "2">>
Node1 == <<"n", "1">>

Raw(u, f, va, ia, sn) ==
    [uuid |-> u, fact |-> f, valid_at |-> va, invalid_at |-> ia,
     source_node_uuid |-> sn]

\* hasattr(result, 'source_node_uuid') ... else None
SourceOf(r) ==
    IF r.source_node_uuid.k = "absent" THEN NoneV ELSE r.source_node_uuid

\* hasattr(result, a) and result.a  ->  str(result.a), else the field stays None
TemporalOf(x) == IF x.k = "val" THEN Val(Str(x.v)) ELSE NoneV

FactTextSuffixed(f) ==
    IF Contains(f, Token1kWh) THEN f \o AnalogyPrefix ELSE f
FactText(f) == IF Contains(f, Token1kWh) THEN AnalogyPrefix \o f ELSE f

Ok(x) == [ok |-> TRUE, out |-> x, err |-> "none"]
Raise(e) == [ok |-> FALSE, out |-> <<>>, err |-> e]

\* One pass of the loop body, agent.py:102-123.  result.fact is read first
\* (line 104), then result.uuid (line 106 or 112); GraphitiSearchResult
\* requires uuid to be a str.
FormatOne(r) ==
    IF r.fact.k = "absent" THEN Raise("AttributeError")
    ELSE IF r.fact.k = "none" THEN Raise("TypeError")
    ELSE IF r.uuid.k = "absent" THEN Raise("AttributeError")
    ELSE IF r.uuid.k = "none" THEN Raise("ValidationError")
    ELSE Ok([uuid |-> r.uuid.v,
             fact |-> FactText(r.fact.v),
             valid_at |-> TemporalOf(r.valid_at),
             invalid_at |-> TemporalOf(r.invalid_at),
             source_node_uuid |-> SourceOf(r)])

RECURSIVE FormatFromPrepending(_, _)
FormatFromPrepending(rs, acc) ==
    IF rs = <<>> THEN [ok |-> TRUE, out |-> acc, err |-> "none"]
    ELSE LET one == FormatOne(Head(rs))
         IN  IF one.ok THEN FormatFromPrepending(Tail(rs), <<one.out>> \o acc)
             ELSE one

\* The loop agent.py:101-125: the first record that raises ends the call.
RECURSIVE FormatFrom(_, _)
FormatFrom(rs, acc) ==
    IF rs = <<>> THEN Ok(acc)
    ELSE LET one == FormatOne(Head(rs))
         IN  IF one.ok THEN FormatFrom(Tail(rs), Append(acc, one.out))
             ELSE one

FormatResults(rs) == FormatFrom(rs, <<>>)

StoreErrors == {"StoreUnreachable", "RetrievalError"}
ProviderErrors == {"ProviderError"}

\* Batches of raw results the store may answer with.
PlainFact == <<"W">>
SingleFactBatches ==
    {<<Raw(Val(Uuid1), Val(s), Absent, Absent, Absent)>> :
        s \in SeqsUpTo(Chars, MaxFactLen)}
SmallRecords ==
    {Raw(u, f, Absent, Absent, Absent) :
        u \in {Val(Uuid1), Val(Uuid2), Absent, NoneV},
        f \in {Val(Token1kWh), Val(PlainFact), Absent, NoneV}}
MixedBatches == SeqsUpTo(SmallRecords, MaxBatch)
TemporalBatches ==
    {<<Raw(Val(Uuid1), Val(PlainFact), va, ia, sn)>> :
        va \in {Absent, NoneV} \cup {Val(t) : t \in Times},
        ia \in {Absent, NoneV} \cup {Val(t) : t \in Times},
        sn \in {Absent, NoneV, Val(Node1)}}
AllBatches == SingleFactBatches \cup MixedBatches \cup TemporalBatches

\* Batches drawn inside the interactive loop.
TurnBatches ==
    {<<>>,
     <<Raw(Val(Uuid1), Val(Token1kWh), Val(1), Absent, Val(Node1))>>,
     <<Raw(Val(Uuid1), Val(PlainFact), Absent, Absent, Absent),
       Raw(Val(Uuid2), Absent, Absent, Absent, Absent)>>}

----------------------------------------------------------------------------
(* The form UI, energy_calculator_ui.py:112-238 *)

\* energy_calculator_ui.py:131-140
Placeholder ==
    <<"S", "e", "l", "e", "c", "t", " ", "a", " ", "C", "i", "t", "y">>
NewYorkCity ==
    <<"N", "e", "w", " ", "Y", "o", "r", "k", " ", "C", "i", "t", "y">>
Boston ==
    <<"B", "o", "s", "t", "o", "n">>
Chicago ==
    <<"C", "h", "i", "c", "a", "g", "o">>
LosAngeles ==
    <<"L", "o", "s", " ", "A", "n", "g", "e", "l", "e", "s">>
SanFrancisco ==
    <<"S", "a", "n", " ", "F", "r", "a", "n", "c", "i", "s", "c", "o">>
Houston ==
    <<"H", "o", "u", "s", "t", "o", "n">>
WashingtonDC ==
    <<"W", "a", "s", "h", "i", "n", "g", "t", "o", "n", " ", "D", "C">>
CityNames ==
    {NewYorkCity,
     Boston,
     Chicago,
     LosAngeles,
     SanFrancisco,
     Houston,
     WashingtonDC}
city_options == {Placeholder} \cup CityNames

\* energy_calculator_ui.py:174-181
Fridge ==
    <<"F", "r", "i", "d", "g", "e">>
Heater ==
    <<"H", "e", "a", "t", "e", "r">>
TV ==
    <<"T", "V">>
AirConditioner ==
    <<"A", "i", "r", " ", "C", "o", "n", "d", "i", "t", "i", "o", "n",
      "e", "r">>
Laptop ==
    <<"L", "a", "p", "t", "o", "p">>
Microwave ==
    <<"M", "i", "c", "r", "o", "w", "a", "v", "e">>
Appliances ==
    {Fridge, Heater, TV, AirConditioner, Laptop, Microwave}

\* energy_calculator_ui.py:198
HoursPerDay ==
    <<"h", "o", "u", "r", "s", "/", "d", "a", "y">>
MinutesPerDay ==
    <<"m", "i", "n", "u", "t", "e", "s", "/", "d", "a", "y">>
Units == {HoursPerDay, MinutesPerDay}

\* Values the user may enter: the rate in hundredths (step 0.01, min 0.0),
\* the usage time in whole units (step 1, min 0).
Rates == {0, 1, 25, 30, 100}
Durations == {0, 3, 5, 12}

\* str() of an int
RECURSIVE IntStr(_)
IntStr(n) ==
    IF n < 10 THEN <<DigitChar[n + 1]>>
    ELSE IntStr(n \div 10) \o <<DigitChar[(n % 10) + 1]>>

\* str() of the float c/100: 30 -> 0.3, 25 -> 0.25, 1 -> 0.01, 100 -> 1.0
RateStr(c) ==
    IntStr(c \div 100) \o <<".">> \o
        (IF c % 10 = 0
         THEN <<DigitChar[((c % 100) \div 10) + 1]>>
         ELSE <<DigitChar[((c % 100) \div 10) + 1], DigitChar[(c % 10) + 1]>>)

\* The pieces of the f-strings of lines 209-222
QueryHead ==
    <<"\n", " ", " ", " ", " ", " ", " ", " ", " ", " ", " ", " ", " ",
      "I", " ", "u", "s", "e", " ", "m", "y", " ">>
QueryFor ==
    <<" ", "f", "o", "r", " ">>
RateClauseHead ==
    <<" ", "w", "i", "t", "h", " ", "e", "l", "e", "c", "t", "r", "i",
      "c", "i", "t", "y", " ", "r", "a", "t", "e", " ", "$">>
RateClauseTail ==
    <<"/", "k", "W", "h">>
CityClauseHead ==
    <<" ", "i", "n", " ">>
QueryTail ==
    <<".", " ", "\n", " ", " ", " ", " ", " ", " ", " ", " ", " ", " ",
      " ", " ", "W", "h", "a", "t", " ", "i", "s", " ", "t", "h", "e",
      " ", "e", "n", "e", "r", "g", "y", " ", "c", "o", "n", "s", "u",
      "m", "p", "t", "i", "o", "n", " ", "a", "n", "d", " ", "c", "o",
      "s", "t", "?", " ", "P", "l", "e", "a", "s", "e", " ", "p", "r",
      "o", "v", "i", "d", "e", " ", "a", "l", "l", " ", "5", " ", "p",
      "h", "y", "s", "i", "c", "a", "l", " ", "a", "n", "a", "l", "o",
      "g", "i", "e", "s", ".", "\n", " ", " ", " ", " ", " ", " ", " ",
      " ", " ", " ", " ", " ">>

\* energy_calculator_ui.py:208-222
BuildQuery(app, t, u, rate, city) ==
    LET base == QueryHead \o Lower(app) \o QueryFor \o IntStr(t) \o <<" ">> \o u
    IN  IF rate > 0
        THEN base \o RateClauseHead \o RateStr(rate) \o RateClauseTail
                  \o QueryTail
        ELSE IF city # Placeholder
        THEN base \o CityClauseHead \o city \o QueryTail
        ELSE base \o QueryTail

\* energy_calculator_ui.py:142-169: the city that reaches line 206
EffectiveCity(c1, c2, rate) ==
    LET cleared == IF rate > 0 THEN Placeholder ELSE Placeholder
    IN  IF cleared = Placeholder /\ rate = 0 THEN c2 ELSE cleared

FormQueryCityFirst(c1, c2, rate, app, t, u) ==
    IF c1 # Placeholder
    THEN QueryHead \o Lower(app) \o QueryFor \o IntStr(t) \o <<" ">> \o u
             \o CityClauseHead \o c1 \o QueryTail
    ELSE BuildQuery(app, t, u, rate, c2)

\* energy_calculator_ui.py:142-222: the query of one submission
FormQuery(c1, c2, rate, app, t, u) ==
    BuildQuery(app, t, u, rate, EffectiveCity(c1, c2, rate))

\* The widgets as first drawn: index 0 of each select box, the minimum of
\* the rate input, usage_time 3 (line 116).
FormFresh ==
    /\ uiOpens = 0
    /\ uiCloses = 0
    /\ turnHandles = {}
    /\ uiResults = "none"
    /\ city1 = Placeholder
    /\ city2 = Placeholder
    /\ custom_rate = 0
    /\ appliance = Fridge
    /\ time = 3
    /\ unit = HoursPerDay
    /\ query = <<>>

FormOff == upc = "off" /\ FormFresh

----------------------------------------------------------------------------
(* The interactive loop, agent.py:132-189 *)

UserInputs == {<<"h", "i">>, <<"B", "y", "e">>}
ExitWords ==
    {<<"e", "x", "i", "t">>, <<"q", "u", "i", "t">>, <<"b", "y", "e">>,
     <<"g", "o", "o", "d", "b", "y", "e">>}

Fragments == {<<>>, <<"a">>, <<"b">>, <<"a", "b">>}

\* A message of the history: who wrote it, in which turn, and for a user
\* message the text that was typed.
UserMsg(t, text) == [role |-> "user", turn |-> t, text |-> text]
AgentMsg(t) == [role |-> "agent", turn |-> t, text |-> <<>>]

\* The messages one run produces: the request and the response.
NewMessages(t, text) == <<UserMsg(t, text), AgentMsg(t)>>

\* result.all_messages(): the history the run was given, then its new messages.
AllMessages(history, t, text) == history \o NewMessages(t, text)

InFlightStates == {"Idle", "AwaitingCompletion", "ToolRequested", "ToolResolved"}
InFlight == pc = "turn" /\ turnState \in InFlightStates

Init ==
    /\ pc = "build"
    /\ conn = "open"
    /\ stdin = <<>>
    /\ user_input = <<>>
    /\ messages = <<>>
    /\ message_history = <<>>
    /\ turnNo = 0
    /\ turnState = "Idle"
    /\ frags = <<>>
    /\ curr_message = <<>>
    /\ shown = <<>>
    /\ toolCalls = 0
    /\ storeCalls = 0
    /\ results = <<>>
    /\ toolOut = <<>>
    /\ raised = "none"
    /\ searchLog = <<>>
    /\ storeErr = "none"
    /\ errShown = "none"
    /\ spc = "off"
    /\ sconn = "none"
    /\ epi = 0
    /\ added = 0
    /\ FormOff

\* The locals of a turn are dead once the turn has ended.
ClearTurnLocals ==
    /\ frags' = <<>>
    /\ curr_message' = <<>>
    /\ shown' = <<>>
    /\ toolCalls' = 0
    /\ storeCalls' = 0
    /\ results' = <<>>
    /\ toolOut' = <<>>
    /\ raised' = "none"
    /\ searchLog' = <<>>
    /\ storeErr' = "none"

\* The user types a line; the terminal keeps it until input() reads it.
Type ==
    /\ pc \in {"build", "prompt", "turn"}
    /\ Len(stdin) < MaxPending
    /\ \E line \in UserInputs : stdin' = Append(stdin, line)
    /\ UNCHANGED <<pc, conn, user_input, messages, message_history, turnNo,
                   turnState, frags, curr_message, shown, toolCalls,
                   storeCalls, results, toolOut, raised, searchLog, storeErr,
                   errShown, seedVars, formVars>>

\* agent.py:146-151: a failure to build the indices is reported and ignored.
BuildIndices ==
    /\ pc = "build"
    /\ pc' = "prompt"
    /\ UNCHANGED <<conn, stdin, user_input, messages, message_history, turnNo,
                   turnState, frags, curr_message, shown, toolCalls,
                   storeCalls, results, toolOut, raised, searchLog, storeErr,
                   errShown, seedVars, formVars>>

\* A user interrupt while the indices are built is no Exception: it leaves
\* main before the try of line 156 is entered.
InterruptBuild ==
    /\ pc = "build"
    /\ pc' = "exited"
    /\ UNCHANGED <<conn, stdin, user_input, messages, message_history, turnNo,
                   turnState, frags, curr_message, shown, toolCalls,
                   storeCalls, results, toolOut, raised, searchLog, storeErr,
                   errShown, seedVars, formVars>>

\* agent.py:157-159: input() is called at the top of the loop only.
CanReadInputAnywhere == pc \in {"prompt", "turn"} /\ stdin # <<>>
CanReadInput == pc = "prompt" /\ stdin # <<>>

\* agent.py:159-164
ReadInput ==
    /\ CanReadInput
    /\ user_input' = Head(stdin)
    /\ stdin' = Tail(stdin)
    /\ IF Lower(Head(stdin)) \in ExitWords
       THEN /\ pc' = "finally"
            /\ UNCHANGED <<turnNo, turnState, errShown>>
       ELSE /\ turnNo < MaxTurns
            /\ pc' = "turn"
            /\ turnNo' = turnNo + 1
            /\ turnState' = "Idle"
            /\ errShown' = "none"
    /\ UNCHANGED <<conn, messages, message_history, frags, curr_message,
                   shown, toolCalls, storeCalls, results, toolOut, raised,
                   searchLog, storeErr, seedVars, formVars>>

\* agent.py:168-176: run_stream is entered with the current history.
BeginTurn ==
    /\ pc = "turn" /\ turnState = "Idle"
    /\ turnState' = "AwaitingCompletion"
    /\ message_history' = messages
    /\ UNCHANGED <<pc, conn, stdin, user_input, messages, turnNo, frags,
                   curr_message, shown, toolCalls, storeCalls, results,
                   toolOut, raised, searchLog, storeErr, errShown, seedVars, formVars>>

\* The provider asks for a search before it answers: search_graphiti is
\* entered and awaits graphiti.search, agent.py:94-98.
ToolRequest ==
    /\ pc = "turn" /\ turnState = "AwaitingCompletion"
    /\ frags = <<>>
    /\ toolCalls < MaxTools
    /\ turnState' = "ToolRequested"
    /\ toolCalls' = toolCalls + 1
    /\ storeCalls' = 1
    /\ results' = <<>>
    /\ toolOut' = <<>>
    /\ UNCHANGED <<pc, conn, stdin, user_input, messages, message_history,
                   turnNo, frags, curr_message, shown, raised, searchLog,
                   storeErr, errShown, seedVars, formVars>>

\* graphiti.search answers; the rest of search_graphiti runs, agent.py:98-129.
StoreReply(B) ==
    /\ pc = "turn" /\ turnState = "ToolRequested"
    /\ \E batch \in B :
         LET r == FormatResults(batch)
         IN  /\ results' = batch
             /\ IF r.ok
                THEN /\ turnState' = "ToolResolved"
                     /\ toolOut' = r.out
                     /\ UNCHANGED <<raised, searchLog>>
                ELSE /\ turnState' = "Failed"
                     /\ raised' = r.err
                     /\ searchLog' = Append(searchLog, r.err)
                     /\ UNCHANGED toolOut
    /\ UNCHANGED <<pc, conn, stdin, user_input, messages, message_history,
                   turnNo, frags, curr_message, shown, toolCalls, storeCalls,
                   storeErr, errShown, seedVars, formVars>>

\* graphiti.search raises: agent.py:126-129 prints the error and re-raises.
StoreFailRetries ==
    /\ pc = "turn" /\ turnState = "ToolRequested"
    /\ \E e \in StoreErrors :
         /\ storeErr' = e
         /\ raised' = e
         /\ searchLog' = Append(searchLog, e)
    /\ storeCalls' = storeCalls + 1
    /\ turnState' = "Failed"
    /\ UNCHANGED <<pc, conn, stdin, user_input, messages, message_history,
                   turnNo, frags, curr_message, shown, toolCalls, results,
                   toolOut, errShown, seedVars, formVars>>

StoreFail ==
    /\ pc = "turn" /\ turnState = "ToolRequested"
    /\ \E e \in StoreErrors :
         /\ storeErr' = e
         /\ raised' = e
         /\ searchLog' = Append(searchLog, e)
    /\ turnState' = "Failed"
    /\ UNCHANGED <<pc, conn, stdin, user_input, messages, message_history,
                   turnNo, frags, curr_message, shown, toolCalls, storeCalls,
                   results, toolOut, errShown, seedVars, formVars>>

\* The tool's result is handed back to the provider.
ToolReturn ==
    /\ pc = "turn" /\ turnState = "ToolResolved"
    /\ turnState' = "AwaitingCompletion"
    /\ UNCHANGED <<pc, conn, stdin, user_input, messages, message_history,
                   turnNo, frags, curr_message, shown, toolCalls, storeCalls,
                   results, toolOut, raised, searchLog, storeErr, errShown,
                   seedVars, formVars>>

\* agent.py:178
AppendFragmentOverwrite(curr, message) == message
AppendFragment(curr, message) == curr \o message

\* The text rebuilt from a whole stream by the loop of agent.py:176-179
RECURSIVE Reconstruct(_, _)
Reconstruct(fs, curr) ==
    IF fs = <<>> THEN curr
    ELSE Reconstruct(Tail(fs), AppendFragment(curr, Head(fs)))

\* agent.py:177-179: one fragment arrives and the display is refreshed.
StreamFragment ==
    /\ pc = "turn" /\ turnState = "AwaitingCompletion"
    /\ Len(frags) < MaxFrags
    /\ \E message \in Fragments :
         /\ frags' = Append(frags, message)
         /\ curr_message' = AppendFragment(curr_message, message)
         /\ shown' = AppendFragment(curr_message, message)
    /\ UNCHANGED <<pc, conn, stdin, user_input, messages, message_history,
                   turnNo, turnState, toolCalls, storeCalls, results, toolOut,
                   raised, searchLog, storeErr, errShown, seedVars, formVars>>

\* The stream ends and the run_stream block is left, agent.py:175-180.
StreamEnd ==
    /\ pc = "turn" /\ turnState = "AwaitingCompletion"
    /\ turnState' = "Completed"
    /\ UNCHANGED <<pc, conn, stdin, user_input, messages, message_history,
                   turnNo, frags, curr_message, shown, toolCalls, storeCalls,
                   results, toolOut, raised, searchLog, storeErr, errShown,
                   seedVars, formVars>>

\* The completion provider fails, before or during streaming.
ProviderFail ==
    /\ pc = "turn" /\ turnState = "AwaitingCompletion"
    /\ \E e \in ProviderErrors : raised' = e
    /\ turnState' = "Failed"
    /\ UNCHANGED <<pc, conn, stdin, user_input, messages, message_history,
                   turnNo, frags, curr_message, shown, toolCalls, storeCalls,
                   results, toolOut, searchLog, storeErr, errShown, seedVars, formVars>>

\* agent.py:182
ExtendHistoryDropsOld ==
    /\ pc = "turn" /\ turnState = "Completed"
    /\ messages' = NewMessages(turnNo, user_input)
    /\ pc' = "prompt"
    /\ ClearTurnLocals
    /\ UNCHANGED <<conn, stdin, user_input, message_history, turnNo,
                   turnState, errShown, seedVars, formVars>>

ExtendHistory ==
    /\ pc = "turn" /\ turnState = "Completed"
    /\ messages' = messages \o AllMessages(message_history, turnNo, user_input)
    /\ pc' = "prompt"
    /\ ClearTurnLocals
    /\ UNCHANGED <<conn, stdin, user_input, message_history, turnNo,
                   turnState, errShown, seedVars, formVars>>

\* agent.py:184-185
HandleFailureKeepsPartial ==
    /\ pc = "turn" /\ turnState = "Failed"
    /\ errShown' = raised
    /\ messages' = messages \o <<UserMsg(turnNo, user_input)>>
    /\ pc' = "prompt"
    /\ ClearTurnLocals
    /\ UNCHANGED <<conn, stdin, user_input, message_history, turnNo,
                   turnState, seedVars, formVars>>

HandleFailureEndsLoop ==
    /\ pc = "turn" /\ turnState = "Failed"
    /\ errShown' = raised
    /\ pc' = "finally"
    /\ ClearTurnLocals
    /\ UNCHANGED <<conn, stdin, user_input, messages, message_history, turnNo,
                   turnState, seedVars, formVars>>

HandleFailure ==
    /\ pc = "turn" /\ turnState = "Failed"
    /\ errShown' = raised
    /\ pc' = "prompt"
    /\ ClearTurnLocals
    /\ UNCHANGED <<conn, stdin, user_input, messages, message_history, turnNo,
                   turnState, seedVars, formVars>>

\* A user interrupt at the prompt or in a turn: the finally of line 186 runs.
Interrupt ==
    /\ pc \in {"prompt", "turn"}
    /\ pc' = "finally"
    /\ ClearTurnLocals
    /\ UNCHANGED <<conn, stdin, user_input, messages, message_history, turnNo,
                   turnState, errShown, seedVars, formVars>>

\* agent.py:186-189
Close ==
    /\ pc = "finally"
    /\ conn' = "closed"
    /\ pc' = "exited"
    /\ UNCHANGED <<stdin, user_input, messages, message_history, turnNo,
                   turnState, frags, curr_message, shown, toolCalls,
                   storeCalls, results, toolOut, raised, searchLog, storeErr,
                   errShown, seedVars, formVars>>

Next ==
    \/ Type
    \/ BuildIndices
    \/ InterruptBuild
    \/ ReadInput
    \/ BeginTurn
    \/ ToolRequest
    \/ StoreReply(TurnBatches)
    \/ StoreFail
    \/ ToolReturn
    \/ StreamFragment
    \/ StreamEnd
    \/ ProviderFail
    \/ ExtendHistory
    \/ HandleFailure
    \/ Interrupt
    \/ Close

Spec == Init /\ [][Next]_vars

----------------------------------------------------------------------------
(* search_graphiti on its own: one invocation, any batch of raw results *)

SearchInit ==
    /\ pc = "turn"
    /\ conn = "open"
    /\ stdin = <<>>
    /\ user_input = <<"h", "i">>
    /\ messages = <<>>
    /\ message_history = <<>>
    /\ turnNo = 1
    /\ turnState = "ToolRequested"
    /\ frags = <<>>
    /\ curr_message = <<>>
    /\ shown = <<>>
    /\ toolCalls = 1
    /\ storeCalls = 1
    /\ results = <<>>
    /\ toolOut = <<>>
    /\ raised = "none"
    /\ searchLog = <<>>
    /\ storeErr = "none"
    /\ errShown = "none"
    /\ spc = "off"
    /\ sconn = "none"
    /\ epi = 0
    /\ added = 0
    /\ FormOff

SearchNext ==
    \/ StoreReply(AllBatches)
    \/ StoreFail

SearchSpec == SearchInit /\ [][SearchNext]_vars

----------------------------------------------------------------------------
(* The seeding run, knowledge_graph_new.py:41-365 *)

NumEpisodes == 24

\* How main was left: at its end, by the return of line 253, by the raise of
\* line 365, or by an interrupt.
SeedExits == {"done", "returned", "raised", "interrupted"}

SeedInit ==
    /\ pc = "off"
    /\ conn = "none"
    /\ stdin = <<>>
    /\ user_input = <<>>
    /\ messages = <<>>
    /\ message_history = <<>>
    /\ turnNo = 0
    /\ turnState = "Idle"
    /\ frags = <<>>
    /\ curr_message = <<>>
    /\ shown = <<>>
    /\ toolCalls = 0
    /\ storeCalls = 0
    /\ results = <<>>
    /\ toolOut = <<>>
    /\ raised = "none"
    /\ searchLog = <<>>
    /\ storeErr = "none"
    /\ errShown = "none"
    /\ spc = "build"
    /\ sconn = "open"
    /\ epi = 0
    /\ added = 0
    /\ FormOff

\* knowledge_graph_new.py:57
SeedBuildIndices ==
    /\ spc = "build"
    /\ spc' = "episodes"
    /\ UNCHANGED <<sconn, epi, added, loopVars, formVars>>

\* An error in the outer try is logged and re-raised, lines 363-365.
SeedBuildFails ==
    /\ spc = "build"
    /\ spc' = "raised"
    /\ UNCHANGED <<sconn, epi, added, loopVars, formVars>>

\* knowledge_graph_new.py:203-219
AddEpisode ==
    /\ spc = "episodes" /\ epi < NumEpisodes
    /\ epi' = epi + 1
    /\ added' = added + 1
    /\ UNCHANGED <<spc, sconn, loopVars, formVars>>

\* knowledge_graph_new.py:220-223
AddEpisodeFails ==
    /\ spc = "episodes" /\ epi < NumEpisodes
    /\ epi' = epi + 1
    /\ UNCHANGED <<spc, sconn, added, loopVars, formVars>>

\* knowledge_graph_new.py:226-253: verify when something was added, return
\* at line 253 when nothing was.
AfterEpisodes ==
    /\ spc = "episodes" /\ epi = NumEpisodes
    /\ spc' = IF added > 0 THEN "search" ELSE "returned"
    /\ UNCHANGED <<sconn, epi, added, loopVars, formVars>>

\* knowledge_graph_new.py:257-275: a failed search is logged and ignored.
SeedSearch ==
    /\ spc = "search"
    /\ spc' = "node_search"
    /\ UNCHANGED <<sconn, epi, added, loopVars, formVars>>

\* knowledge_graph_new.py:296-321
SeedNodeSearch ==
    /\ spc = "node_search"
    /\ spc' = "search_again"
    /\ UNCHANGED <<sconn, epi, added, loopVars, formVars>>

\* graphiti._search raises: lines 363-365 log and re-raise.
SeedNodeSearchFails ==
    /\ spc = "node_search"
    /\ spc' = "raised"
    /\ UNCHANGED <<sconn, epi, added, loopVars, formVars>>

\* knowledge_graph_new.py:326-344
SeedSearchAgain ==
    /\ spc = "search_again"
    /\ spc' = "cleanup"
    /\ UNCHANGED <<sconn, epi, added, loopVars, formVars>>

\* knowledge_graph_new.py:355-361
SeedCleanup ==
    /\ spc = "cleanup"
    /\ sconn' = "closed"
    /\ spc' = "done"
    /\ UNCHANGED <<epi, added, loopVars, formVars>>

\* A user interrupt is no Exception: it leaves main at once.
SeedInterrupt ==
    /\ spc \in {"build", "episodes", "search", "node_search", "search_again",
                "cleanup"}
    /\ spc' = "interrupted"
    /\ UNCHANGED <<sconn, epi, added, loopVars, formVars>>

SeedNext ==
    \/ SeedBuildIndices
    \/ SeedBuildFails
    \/ AddEpisode
    \/ AddEpisodeFails
    \/ AfterEpisodes
    \/ SeedSearch
    \/ SeedNodeSearch
    \/ SeedNodeSearchFails
    \/ SeedSearchAgain
    \/ SeedCleanup
    \/ SeedInterrupt

SeedSpec == SeedInit /\ [][SeedNext]_vars

----------------------------------------------------------------------------
(* The form UI as a state machine: Streamlit runs the script from its top  *)
(* on the first visit, on every submission of the form and on st.rerun().  *)

LoopOff ==
    /\ pc = "off"
    /\ conn = "none"
    /\ stdin = <<>>
    /\ user_input = <<>>
    /\ messages = <<>>
    /\ message_history = <<>>
    /\ turnNo = 0
    /\ turnState = "Idle"
    /\ frags = <<>>
    /\ curr_message = <<>>
    /\ shown = <<>>
    /\ toolCalls = 0
    /\ storeCalls = 0
    /\ results = <<>>
    /\ toolOut = <<>>
    /\ raised = "none"
    /\ searchLog = <<>>
    /\ storeErr = "none"
    /\ errShown = "none"

SeedOff == spc = "off" /\ sconn = "none" /\ epi = 0 /\ added = 0

FormInit == LoopOff /\ SeedOff /\ upc = "start" /\ FormFresh

widgets == <<city1, city2, custom_rate, appliance, time, unit>>

\* A run of the script with the form not submitted,
\* energy_calculator_ui.py:112-204 and 240-303: line 123 creates a client.
ScriptRun ==
    /\ upc = "start"
    /\ uiOpens < MaxRuns
    /\ uiOpens' = uiOpens + 1
    /\ upc' = "form"
    /\ UNCHANGED <<uiCloses, turnHandles, uiResults, widgets, query, loopVars,
                   seedVars>>

\* The user changes a widget of the form; nothing runs until Calculate.
EditCity1 ==
    /\ upc = "form"
    /\ \E c \in {Placeholder, Boston} : city1' = c
    /\ UNCHANGED <<upc, uiOpens, uiCloses, turnHandles, uiResults, city2,
                   custom_rate, appliance, time, unit, query, loopVars,
                   seedVars>>

EditCity2 ==
    /\ upc = "form"
    /\ \E c \in city_options : city2' = c
    /\ UNCHANGED <<upc, uiOpens, uiCloses, turnHandles, uiResults, city1,
                   custom_rate, appliance, time, unit, query, loopVars,
                   seedVars>>

EditRate ==
    /\ upc = "form"
    /\ \E r \in Rates : custom_rate' = r
    /\ UNCHANGED <<upc, uiOpens, uiCloses, turnHandles, uiResults, city1,
                   city2, appliance, time, unit, query, loopVars, seedVars>>

EditAppliance ==
    /\ upc = "form"
    /\ \E a \in Appliances : appliance' = a
    /\ UNCHANGED <<upc, uiOpens, uiCloses, turnHandles, uiResults, city1,
                   city2, custom_rate, time, unit, query, loopVars, seedVars>>

EditTime ==
    /\ upc = "form"
    /\ \E t \in Durations : time' = t
    /\ UNCHANGED <<upc, uiOpens, uiCloses, turnHandles, uiResults, city1,
                   city2, custom_rate, appliance, unit, query, loopVars,
                   seedVars>>

EditUnit ==
    /\ upc = "form"
    /\ \E u \in Units : unit' = u
    /\ UNCHANGED <<upc, uiOpens, uiCloses, turnHandles, uiResults, city1,
                   city2, custom_rate, appliance, time, query, loopVars,
                   seedVars>>

\* Calculate is pressed: the script runs again from its top (line 123
\* creates a client), builds the query (lines 206-222) and hands the client
\* of this run to the agent (line 225).
Submit ==
    /\ upc = "form"
    /\ uiOpens < MaxRuns
    /\ uiOpens' = uiOpens + 1
    /\ query' = FormQuery(city1, city2, custom_rate, appliance, time, unit)
    /\ turnHandles' = turnHandles \cup {uiOpens + 1}
    /\ upc' = "agent"
    /\ UNCHANGED <<uiCloses, uiResults, widgets, loopVars, seedVars>>

\* energy_calculator_ui.py:237-238: the answer is stored, st.rerun()
AgentDone ==
    /\ upc = "agent"
    /\ uiResults' = "answer"
    /\ query' = <<>>
    /\ upc' = "start"
    /\ UNCHANGED <<uiOpens, uiCloses, turnHandles, widgets, loopVars,
                   seedVars>>

\* graphiti_agent.run raises: the script run ends with the error shown.
AgentFails ==
    /\ upc = "agent"
    /\ query' = <<>>
    /\ upc' = "form"
    /\ UNCHANGED <<uiOpens, uiCloses, turnHandles, uiResults, widgets,
                   loopVars, seedVars>>

FormNext ==
    \/ ScriptRun
    \/ EditCity1
    \/ EditCity2
    \/ EditRate
    \/ EditAppliance
    \/ EditTime
    \/ EditUnit
    \/ Submit
    \/ AgentDone
    \/ AgentFails

FormSpec == FormInit /\ [][FormNext]_vars

----------------------------------------------------------------------------
(* Properties *)

\* C1: a turn that has failed leaves the history equal, by value, to the
\* history the turn was started with: neither the user message nor a partial
\* agent message is appended.
FailedTurnKeepsHistory ==
    turnState = "Failed" => messages = message_history

FailedTurnSeen ==
    /\ pc = "prompt" /\ turnState = "Failed"
    /\ errShown # "none"
    /\ messages # <<>>

\* C2: the history holds each completed turn once and in turn order: a user
\* message, then the agent message of the same turn, turn numbers increasing.
HistoryHoldsEachTurnOnce ==
    /\ Len(messages) % 2 = 0
    /\ \A i \in 1..Len(messages) :
         /\ (i % 2 = 1) => /\ messages[i].role = "user"
                           /\ messages[i + 1] = AgentMsg(messages[i].turn)
         /\ \A j \in 1..Len(messages) :
              i < j => messages[i].turn <= messages[j].turn
    /\ \A i, j \in 1..Len(messages) : i # j => messages[i] # messages[j]

\* C3: after a successful turn the history starts with the history the turn
\* was given, unmodified, and ends with the new agent message.
HistoryAppendOnly ==
    (pc = "prompt" /\ turnState = "Completed") =>
        /\ IsPrefix(message_history, messages)
        /\ messages # <<>>
        /\ messages[Len(messages)] = AgentMsg(turnNo)

SecondTurnAppended ==
    /\ pc = "prompt" /\ turnState = "Completed"
    /\ message_history # <<>>

\* C4: while a turn is in flight no line is read from the user and no other
\* turn starts; lines typed meanwhile stay unread.
OneTurnAtATime ==
    [][InFlight => /\ turnNo' = turnNo
                   /\ user_input' = user_input
                   /\ IsPrefix(stdin, stdin')]_vars

TypedDuringTurn == InFlight /\ turnState # "Idle" /\ stdin # <<>>

\* C5: the text built and the text shown after the k-th fragment are the
\* concatenation of the first k fragments, in arrival order.
StreamIsConcatenation ==
    pc = "turn" => /\ curr_message = Concat(frags)
                   /\ shown = Concat(frags)

StreamedTwoFragments ==
    /\ pc = "turn" /\ turnState = "Completed"
    /\ Len(frags) >= 2
    /\ frags[1] # frags[2] /\ frags[1] # <<>> /\ frags[2] # <<>>

Swap(fs, i, j) ==
    [k \in 1..Len(fs) |-> IF k = i THEN fs[j] ELSE IF k = j THEN fs[i] ELSE fs[k]]

\* C6 (as stated): exchanging any two fragments of a finished stream gives
\* a different reconstructed text.
AnySwapChangesText ==
    (pc = "turn" /\ turnState = "Completed") =>
        \A i, j \in 1..Len(frags) :
            i < j => Reconstruct(Swap(frags, i, j), <<>>) # curr_message

\* C6 (amended): exchanging two fragments of the same length and different
\* content gives a different reconstructed text.
SwapOfDistinctChangesText ==
    (pc = "turn" /\ turnState = "Completed") =>
        \A i, j \in 1..Len(frags) :
            (i < j /\ Len(frags[i]) = Len(frags[j]) /\ frags[i] # frags[j])
                => Reconstruct(Swap(frags, i, j), <<>>) # curr_message

DistinctFragmentsStreamed ==
    /\ pc = "turn" /\ turnState = "Completed"
    /\ \E i, j \in 1..Len(frags) :
         i < j /\ Len(frags[i]) = Len(frags[j]) /\ frags[i] # frags[j]

\* C7: a statement that contains 1kWh is returned as "1 kWh is equivalent
\* to " followed by the whole statement; any other statement is returned
\* unchanged.
AnalogyRewritten ==
    turnState = "ToolResolved" =>
        /\ Len(toolOut) = Len(results)
        /\ \A i \in 1..Len(results) :
             LET f == results[i].fact.v
                 g == toolOut[i].fact
             IN  IF \E k \in 1..(Len(f) - 3) :
                        /\ f[k] = "1" /\ f[k + 1] = "k"
                        /\ f[k + 2] = "W" /\ f[k + 3] = "h"
                 THEN /\ Len(g) = Len(AnalogyPrefix) + Len(f)
                      /\ SubSeq(g, 1, Len(AnalogyPrefix)) = AnalogyPrefix
                      /\ SubSeq(g, Len(AnalogyPrefix) + 1, Len(g)) = f
                 ELSE g = f

BareTokenRewritten ==
    /\ turnState = "ToolResolved"
    /\ Len(results) = 1
    /\ results[1].fact.v = Token1kWh
    /\ toolOut[1].fact = AnalogyPrefix \o Token1kWh

IsValidRaw(r) == r.uuid.k = "val" /\ r.fact.k = "val"

RECURSIVE ValidOnly(_)
ValidOnly(rs) ==
    IF rs = <<>> THEN <<>>
    ELSE IF IsValidRaw(Head(rs)) THEN <<Head(rs)>> \o ValidOnly(Tail(rs))
    ELSE ValidOnly(Tail(rs))

\* C8: once the store has answered, the call returns (it does not fail), and
\* what it returns is the normalization of the valid results alone.
MalformedExcluded ==
    (turnState \in {"ToolResolved", "Failed"} /\ storeErr = "none") =>
        /\ turnState = "ToolResolved"
        /\ toolOut = FormatResults(ValidOnly(results)).out

\* C9: when the store call fails, search_graphiti raises that same error,
\* has printed it, has called the store once, and the connection is open.
StoreFailureReraised ==
    storeErr # "none" =>
        /\ turnState = "Failed"
        /\ raised = storeErr
        /\ searchLog = <<storeErr>>
        /\ storeCalls = 1
        /\ conn = "open"

StoreFailureSeen == storeErr # "none" /\ turnState = "Failed"

\* C10: a run that has ended has closed its connection.
RunClosesConnection == spc \in SeedExits => sconn = "closed"

\* C11: a failed turn is left only by reporting its error, which puts the
\* loop back at the prompt with the connection open (or by a user interrupt);
\* from there the next line read starts a new turn on the same history.
FailureEndsOnlyTheTurn ==
    [][/\ (pc = "turn" /\ turnState = "Failed" /\ pc' # "turn") =>
            \/ pc' = "prompt" /\ errShown' = raised /\ conn' = "open"
            \/ pc' = "finally" /\ errShown' = errShown
       /\ (pc = "prompt" /\ turnState = "Failed") => conn = "open"
       /\ (pc = "prompt" /\ turnState = "Failed" /\ pc' = "turn") =>
            /\ turnNo' = turnNo + 1
            /\ turnState' = "Idle"
            /\ messages' = messages
            /\ conn' = "open"]_vars

\* a turn failed, was reported, and the turn after it completed
RetryCompleted ==
    /\ pc = "prompt" /\ turnState = "Completed"
    /\ turnNo = 2
    /\ conn = "open"
    /\ messages = NewMessages(2, user_input)

\* C12: with a custom rate above 0 the query states the rate and holds no
\* city name, whatever the select boxes hold; a city name is in the query
\* only when the rate is 0 and a city other than the placeholder is selected.
CustomRateOverridesCity ==
    upc = "agent" =>
        /\ custom_rate > 0 =>
             /\ Contains(query, <<"$">> \o RateStr(custom_rate) \o RateClauseTail)
             /\ \A c \in CityNames : ~Contains(query, c)
        /\ \A c \in CityNames :
             Contains(query, c) => custom_rate = 0 /\ city2 = c

RateAndCityBothSet ==
    /\ upc = "agent"
    /\ custom_rate = 30
    /\ city1 = Boston /\ city2 = Chicago

ExpectedLower(app) ==
    CASE app = Fridge -> <<"f", "r", "i", "d", "g", "e">>
      [] app = Heater -> <<"h", "e", "a", "t", "e", "r">>
      [] app = TV -> <<"t", "v">>
      [] app = AirConditioner ->
           <<"a", "i", "r", " ", "c", "o", "n", "d", "i", "t", "i", "o", "n",
             "e", "r">>
      [] app = Laptop -> <<"l", "a", "p", "t", "o", "p">>
      [] app = Microwave ->
           <<"m", "i", "c", "r", "o", "w", "a", "v", "e">>

FiveAnalogies ==
    <<"5", " ", "p", "h", "y", "s", "i", "c", "a", "l", " ", "a", "n", "a",
      "l", "o", "g", "i", "e", "s">>

HasRateOrCityClause(q) ==
    \/ Contains(q, RateClauseHead)
    \/ \E c \in CityNames : Contains(q, CityClauseHead \o c)

\* C13: the query holds the lower-cased appliance name, the duration, the
\* unit and "5 physical analogies"; it holds a rate or city clause only when
\* a rate above 0 is entered or a city is selected.
QueryNamesItsInputs ==
    upc = "agent" =>
        /\ Contains(query, <<" ">> \o ExpectedLower(appliance) \o <<" ">>)
        /\ Contains(query, <<" ">> \o IntStr(time) \o <<" ">> \o unit)
        /\ Contains(query, FiveAnalogies)
        /\ HasRateOrCityClause(query) =>
             (custom_rate > 0 \/ city2 # Placeholder)

FridgeThreeHoursDefault ==
    /\ upc = "agent"
    /\ appliance = Fridge /\ time = 3 /\ unit = HoursPerDay
    /\ custom_rate = 0 /\ city2 = Placeholder
    /\ ~HasRateOrCityClause(query)

\* C14: the UI opens one client, closes none, and all its turns run with
\* that one client.
OneHandleForAllTurns ==
    /\ uiOpens <= 1
    /\ uiCloses = 0
    /\ Cardinality(turnHandles) <= 1

\* C15: a call that succeeds returns one fact per valid raw result, in the
\* order of the store: the i-th fact has the id of the i-th valid raw result.
ResultsKeepStoreOrder ==
    turnState = "ToolResolved" =>
        /\ Len(toolOut) = Len(ValidOnly(results))
        /\ \A i \in 1..Len(toolOut) :
             toolOut[i].uuid = ValidOnly(results)[i].uuid.v

TwoResultsReturned ==
    /\ turnState = "ToolResolved"
    /\ Len(results) = 2 /\ Len(toolOut) = 2
    /\ results[1].uuid.v = Uuid2 /\ results[2].uuid.v = Uuid1

DigitOf(c) == CHOOSE d \in 0..9 : DigitChar[d + 1] = c

\* timestamps of equal length in text form, compared as text
RECURSIVE TextLeq(_, _)
TextLeq(a, b) ==
    IF a = <<>> \/ b = <<>> THEN a = <<>>
    ELSE IF Head(a) = Head(b) THEN TextLeq(Tail(a), Tail(b))
    ELSE DigitOf(Head(a)) < DigitOf(Head(b))

\* C17: a returned fact with both temporal fields set has valid_at no later
\* than invalid_at; a temporal field the raw result lacks is None in the fact.
TemporalFieldsOrdered ==
    turnState = "ToolResolved" =>
        \A i \in 1..Len(toolOut) :
            /\ (toolOut[i].valid_at.k = "val" /\ toolOut[i].invalid_at.k = "val")
                 => TextLeq(toolOut[i].valid_at.v, toolOut[i].invalid_at.v)
            /\ results[i].valid_at.k # "val" => toolOut[i].valid_at = NoneV
            /\ results[i].invalid_at.k # "val" => toolOut[i].invalid_at = NoneV

====
